---- MODULE Spec2Model ----
(***************************************************************************)
(* BMI Calculator + Diet Planner (src/app.py).                             *)
(*                                                                         *)
(* Number representation.  The program computes in Python ints and IEEE    *)
(* doubles; the model uses integers only:                                  *)
(*   - a BMI is a record [num, den, ulps]: the exact quotient num/den      *)
(*     (den > 0) and, where that quotient sits exactly on a band boundary, *)
(*     the number of ulps by which the double result of                    *)
(*     weight / ((height_cm / 100.0) ** 2) is off it (elsewhere the        *)
(*     rounding error cannot cross a boundary and ulps is 0);              *)
(*   - a BMR is counted in quarters of a kcal (6.25 * height_cm is a       *)
(*     multiple of 0.25 and is exact in a double);                         *)
(*   - an activity factor is counted in thousandths;                       *)
(*   - int(x) is truncation toward zero;                                   *)
(*   - cal_target * 0.35 is the one product whose double rounding changes  *)
(*     an int() result; Times035 reproduces it.                            *)
(***************************************************************************)
EXTENDS Integers, Sequences, FiniteSets, TLC

(* ---------------- bounds of the model ---------------- *)
AgeStride == 7
HeightStride == 10
WeightStride == 10
Margin == 1
MaxCal == 7000
MinCal == 700
MaxBmi == 45

(* ---------------- widget limits and defaults (bmi_form) ---------------- *)
AgeMin == 5
AgeMax == 120
AgeDefault == 25
HeightMin == 100
HeightMax == 220
HeightDefault == 170
WeightMin == 30
WeightMax == 200
WeightDefault == 70

Genders == {"Male", "Female", "Other"}

Sedentary == "Sedentary (little or no exercise)"
LightlyActive == "Lightly active (light exercise/sports 1-3 days/week)"
ModeratelyActive == "Moderately active (moderate exercise/sports 3-5 days/week)"
VeryActive == "Very active (hard exercise/sports 6-7 days/week)"
ExtraActive == "Extra active (very hard exercise or physical job)"

Activities == {Sedentary, LightlyActive, ModeratelyActive, VeryActive, ExtraActive}

Goals == {"Maintain weight", "Mild weight loss", "Weight loss", "Mild weight gain", "Weight gain"}

(* ---------------- arithmetic helpers ---------------- *)

\* int(n / d) for d > 0: Python's int() truncates toward zero.
Trunc(n, d) == IF n >= 0 THEN n \div d ELSE -((-n) \div d)

Abs(n) == IF n >= 0 THEN n ELSE -n

RECURSIVE Pow2Floor(_)
\* largest power of two that is <= n, for n >= 1
Pow2Floor(n) == IF n < 2 THEN 1 ELSE 2 * Pow2Floor(n \div 2)

\* int(c * 0.35).  The double nearest 0.35 is 0.35 - 0.4 * 2^-54, so the
\* product is below the exact value; it only matters when 0.35 * |c| is an
\* integer N (|c| a multiple of 20), and then the product rounds back to N
\* unless N > 1.75 * 2^floor(log2 N), in which case it rounds to the double
\* just below N and int() gives N - 1.
Times035(c) ==
    LET m == Abs(c)
        N == (7 * m) \div 20
        mag == IF m % 20 = 0 /\ m > 0
               THEN (IF 4 * N > 7 * Pow2Floor(N) THEN N - 1 ELSE N)
               ELSE (35 * m) \div 100
    IN  IF c >= 0 THEN mag ELSE -mag

(* ---------------- helper functions of the program ---------------- *)

Ok(v) == [status |-> "ok", value |-> v]
Raise(e) == [status |-> e]

\* |height_cm| for which 25 * (height_cm/100.0)**2 divided back gives
\* 25 - 1 ulp (BmiRoundsDown) or 25 + 1 ulp (BmiRoundsUp) in doubles.
BmiRoundsDown == {20, 40, 80, 160, 220}
BmiRoundsUp == {140}

BmiUlps(weight, height_cm) ==
    IF weight * 10000 = 25 * height_cm * height_cm
    THEN (IF Abs(height_cm) \in BmiRoundsDown THEN -1
          ELSE IF Abs(height_cm) \in BmiRoundsUp THEN 1 ELSE 0)
    ELSE 0

\* calculate_bmi with a guard that rejects every non-positive height
calculate_bmi_Guarded(weight, height_cm) ==
    IF height_cm <= 0
    THEN Raise("ZeroDivisionError")
    ELSE Ok([num |-> weight * 10000,
             den |-> height_cm * height_cm,
             ulps |-> BmiUlps(weight, height_cm)])

\* calculate_bmi that answers 0 for a zero height instead of dividing
calculate_bmi_ZeroAsZero(weight, height_cm) ==
    IF height_cm = 0
    THEN Ok([num |-> 0, den |-> 1, ulps |-> 0])
    ELSE Ok([num |-> weight * 10000,
             den |-> height_cm * height_cm,
             ulps |-> BmiUlps(weight, height_cm)])

calculate_bmi(weight, height_cm) ==
    IF height_cm = 0
    THEN Raise("ZeroDivisionError")
    ELSE Ok([num |-> weight * 10000,
             den |-> height_cm * height_cm,
             ulps |-> BmiUlps(weight, height_cm)])

\* bmi < twice/2
BmiLt(bmi, twice) ==
    \/ 2 * bmi.num < twice * bmi.den
    \/ (2 * bmi.num = twice * bmi.den /\ bmi.ulps < 0)

\* bmi <= twice/2
BmiLe(bmi, twice) ==
    \/ 2 * bmi.num < twice * bmi.den
    \/ (2 * bmi.num = twice * bmi.den /\ bmi.ulps <= 0)

\* bmi_category with the comparisons written <= : bands closed on top
bmi_category_ClosedAbove(bmi) ==
    IF BmiLe(bmi, 37) THEN "Underweight"
    ELSE IF BmiLe(bmi, 50) THEN "Normal weight"
    ELSE IF BmiLe(bmi, 60) THEN "Overweight"
    ELSE "Obese"

bmi_category(bmi) ==
    IF BmiLt(bmi, 37) THEN "Underweight"
    ELSE IF ~BmiLt(bmi, 37) /\ BmiLt(bmi, 50) THEN "Normal weight"
    ELSE IF ~BmiLt(bmi, 50) /\ BmiLt(bmi, 60) THEN "Overweight"
    ELSE "Obese"

\* activity_factor with 1.35 typed for 1.375
activity_factor_Typo(level) ==
    CASE level = Sedentary -> 1200
      [] level = LightlyActive -> 1350
      [] level = ModeratelyActive -> 1550
      [] level = VeryActive -> 1725
      [] level = ExtraActive -> 1900
      [] OTHER -> 1200

\* activity_factor whose default is 1.0
activity_factor_DefaultOne(level) ==
    CASE level = Sedentary -> 1200
      [] level = LightlyActive -> 1375
      [] level = ModeratelyActive -> 1550
      [] level = VeryActive -> 1725
      [] level = ExtraActive -> 1900
      [] OTHER -> 1000

\* in thousandths
activity_factor(level) ==
    CASE level = Sedentary -> 1200
      [] level = LightlyActive -> 1375
      [] level = ModeratelyActive -> 1550
      [] level = VeryActive -> 1725
      [] level = ExtraActive -> 1900
      [] OTHER -> 1200

\* bmr_mifflin whose last branch returns the sum, not the mean
bmr_mifflin_NoHalving(weight, height_cm, age, gender) ==
    IF gender = "Male"
    THEN 40 * weight + 25 * height_cm - 20 * age + 20
    ELSE IF gender = "Female"
    THEN 40 * weight + 25 * height_cm - 20 * age - 644
    ELSE LET male == 40 * weight + 25 * height_cm - 20 * age + 20
             female == 40 * weight + 25 * height_cm - 20 * age - 644
         IN  male + female

\* in quarters of a kcal
bmr_mifflin(weight, height_cm, age, gender) ==
    IF gender = "Male"
    THEN 40 * weight + 25 * height_cm - 20 * age + 20
    ELSE IF gender = "Female"
    THEN 40 * weight + 25 * height_cm - 20 * age - 644
    ELSE LET male == 40 * weight + 25 * height_cm - 20 * age + 20
             female == 40 * weight + 25 * height_cm - 20 * age - 644
         IN  (male + female) \div 2

GoalOffset(goal) ==
    CASE goal = "Maintain weight" -> 0
      [] goal = "Mild weight loss" -> -250
      [] goal = "Weight loss" -> -500
      [] goal = "Mild weight gain" -> 250
      [] goal = "Weight gain" -> 500
      [] OTHER -> 0

\* adjust_calorie_for_goal with the sign of the offset inverted
adjust_calorie_for_goal_Inverted(tdee, goal) == Trunc(tdee - GoalOffset(goal), 1)

adjust_calorie_for_goal(tdee, goal) == Trunc(tdee + GoalOffset(goal), 1)

\* round(n / d) for d > 0, halves away from zero
Round(n, d) == IF n >= 0 THEN (2 * n + d) \div (2 * d) ELSE -((2 * (-n) + d) \div (2 * d))

\* the portions rounded to the nearest integer instead of truncated
BasePortions_Rounded(cal_target) ==
    [b |-> Round(cal_target * 25, 100),
     l |-> Round(cal_target * 35, 100),
     s |-> Round(cal_target * 10, 100),
     d |-> Round(cal_target * 30, 100)]

\* b, l, s, d of sample_meal_plan
BasePortions(cal_target) ==
    [b |-> Trunc(cal_target * 25, 100),
     l |-> Times035(cal_target),
     s |-> Trunc(cal_target * 10, 100),
     d |-> Trunc(cal_target * 30, 100)]

\* an f-string "<text> (~<kcal> kcal)"
Meal(text, kcal) == [text |-> text, kcal |-> kcal]

\* sample_meal_plan with the Obese dinner delta pasted into the Overweight branch
sample_meal_plan_DinnerSlip(cal_target, category) ==
    LET p == BasePortions(cal_target)
        b == p.b
        l == p.l
        s == p.s
        d == p.d
    IN  IF category = "Underweight"
        THEN [notes |-> "Focus on calorie-dense nutritious foods: nuts, dairy, healthy oils, and protein.",
              breakfast |-> Meal("Oats with whole milk, banana, and peanut butter", b + 150),
              lunch |-> Meal("Rice/roti + dal + paneer/chicken + veggies", l + 200),
              snack |-> Meal("Nuts & dried fruit or smoothie", s + 150),
              dinner |-> Meal("Rice/roti + lentils + salad + yogurt", d + 150)]
        ELSE IF category = "Normal weight"
        THEN [notes |-> "Maintain balanced macros and regular activity.",
              breakfast |-> Meal("Vegetable omelette/tofu scramble + wholegrain toast", b),
              lunch |-> Meal("Grilled chicken/fish or paneer + salad + brown rice", l),
              snack |-> Meal("Fruit or yogurt", s),
              dinner |-> Meal("Light curry + roti + salad", d)]
        ELSE IF category = "Overweight"
        THEN [notes |-> "Reduce refined carbs & added sugars; prioritize protein and fiber.",
              breakfast |-> Meal("Greek yogurt + berries + seeds", b - 100),
              lunch |-> Meal("Grilled protein + large salad + quinoa", l - 100),
              snack |-> Meal("Raw veggies or an apple", s - 50),
              dinner |-> Meal("Steamed fish/beans + veggies", d - 100)]
        ELSE [notes |-> "Aim for modest calorie deficit, high fiber, lean proteins. Consult a professional for personalised plan.",
              breakfast |-> Meal("Oatmeal with berries", Trunc(b - 150, 1)),
              lunch |-> Meal("Large salad with lean protein", Trunc(l - 150, 1)),
              snack |-> Meal("Veg sticks or a small fruit", Trunc(s - 50, 1)),
              dinner |-> Meal("Light vegetable soup + lean protein", Trunc(d - 100, 1))]

sample_meal_plan(cal_target, category) ==
    LET p == BasePortions(cal_target)
        b == p.b
        l == p.l
        s == p.s
        d == p.d
    IN  IF category = "Underweight"
        THEN [notes |-> "Focus on calorie-dense nutritious foods: nuts, dairy, healthy oils, and protein.",
              breakfast |-> Meal("Oats with whole milk, banana, and peanut butter", b + 150),
              lunch |-> Meal("Rice/roti + dal + paneer/chicken + veggies", l + 200),
              snack |-> Meal("Nuts & dried fruit or smoothie", s + 150),
              dinner |-> Meal("Rice/roti + lentils + salad + yogurt", d + 150)]
        ELSE IF category = "Normal weight"
        THEN [notes |-> "Maintain balanced macros and regular activity.",
              breakfast |-> Meal("Vegetable omelette/tofu scramble + wholegrain toast", b),
              lunch |-> Meal("Grilled chicken/fish or paneer + salad + brown rice", l),
              snack |-> Meal("Fruit or yogurt", s),
              dinner |-> Meal("Light curry + roti + salad", d)]
        ELSE IF category = "Overweight"
        THEN [notes |-> "Reduce refined carbs & added sugars; prioritize protein and fiber.",
              breakfast |-> Meal("Greek yogurt + berries + seeds", b - 100),
              lunch |-> Meal("Grilled protein + large salad + quinoa", l - 100),
              snack |-> Meal("Raw veggies or an apple", s - 50),
              dinner |-> Meal("Steamed fish/beans + veggies", d - 50)]
        ELSE [notes |-> "Aim for modest calorie deficit, high fiber, lean proteins. Consult a professional for personalised plan.",
              breakfast |-> Meal("Oatmeal with berries", Trunc(b - 150, 1)),
              lunch |-> Meal("Large salad with lean protein", Trunc(l - 150, 1)),
              snack |-> Meal("Veg sticks or a small fruit", Trunc(s - 50, 1)),
              dinner |-> Meal("Light vegetable soup + lean protein", Trunc(d - 100, 1))]

(* ---------------- values before the main logic has run ---------------- *)
NoBmi == [num |-> 0, den |-> 1, ulps |-> 0]
NoPortions == [b |-> 0, l |-> 0, s |-> 0, d |-> 0]
NoPlan == [notes |-> "",
           breakfast |-> Meal("", 0), lunch |-> Meal("", 0),
           snack |-> Meal("", 0), dinner |-> Meal("", 0)]

\* Nothing assigned yet; stage is the last statement group of the main logic
\* that has run: "bmi" (line 131) or "report" (everything through the report).
NoResults == [err |-> "none", bmi |-> NoBmi, category |-> "", bmr |-> 0,
              tdee |-> 0, cal_target |-> 0, portions |-> NoPortions,
              plan |-> NoPlan, stage |-> "bmi"]

\* The body of "if submit:" as far as the results go.  calculate_bmi is the
\* first statement; when it raises, nothing after it runs.
MainLogic(weight, height, years, sex, level, g) ==
    LET r == calculate_bmi(weight, height)
    IN  IF r.status # "ok"
        THEN [NoResults EXCEPT !.err = r.status]
        ELSE LET cat == bmi_category(r.value)
                 rate == bmr_mifflin(weight, height, years, sex)
                 t == Trunc(rate * activity_factor(level), 4000)
                 target == adjust_calorie_for_goal(t, g)
             IN  [err |-> "none", bmi |-> r.value, category |-> cat,
                  bmr |-> rate, tdee |-> t, cal_target |-> target,
                  portions |-> BasePortions(target),
                  plan |-> sample_meal_plan(target, cat), stage |-> "report"]


(* ---------------- state ---------------- *)
\* submit .. goal: the form's values (module globals of the script);
\* results: the names the main logic assigns (bmi, category, bmr, tdee,
\* cal_target, plan), with portions (b, l, s, d of its sample_meal_plan call)
\* and err (the exception that ended the script run, or "none");
\* call, ret: a direct call of one helper and what it returned.
VARIABLES submit, age, gender, height_cm, weight_kg, activity, goal,
          results, call, ret

form == <<submit, age, gender, height_cm, weight_kg, activity, goal>>
vars == <<form, results, call, ret>>

NoCall == [fn |-> "none", args |-> <<>>]
NoRet == [status |-> "none"]
Pending == [status |-> "pending"]

(* ---------------- the application: form, then main logic ---------------- *)

\* values a widget with the given limits can hold, sampled
Sample(lo, hi, stride, dflt) == {x \in lo..hi : (x - lo) % stride = 0} \cup {hi, dflt}

Ages == Sample(AgeMin, AgeMax, AgeStride, AgeDefault)
Heights == Sample(HeightMin, HeightMax, HeightStride, HeightDefault)
Weights == Sample(WeightMin, WeightMax, WeightStride, WeightDefault)

FormDefaults ==
    /\ submit = FALSE
    /\ age = AgeDefault
    /\ gender = "Male"
    /\ height_cm = HeightDefault
    /\ weight_kg = WeightDefault
    /\ activity = Sedentary
    /\ goal = "Maintain weight"

Init ==
    /\ FormDefaults
    /\ results = NoResults
    /\ call = NoCall
    /\ ret = NoRet

\* The user fills the form and presses "Calculate BMI & Plan": the script
\* runs with submit true and the main logic computes the results.
Submit ==
    /\ ~submit
    /\ \E a \in Ages, sex \in Genders, h \in Heights, w \in Weights,
          level \in Activities, g \in Goals :
              /\ submit' = TRUE
              /\ age' = a
              /\ gender' = sex
              /\ height_cm' = h
              /\ weight_kg' = w
              /\ activity' = level
              /\ goal' = g
              /\ results' = MainLogic(w, h, a, sex, level, g)
    /\ UNCHANGED <<call, ret>>

\* A fresh run of the script (page reload): widgets at their defaults,
\* submit false, the "if submit:" block skipped.
NewSession ==
    /\ submit
    /\ submit' = FALSE
    /\ age' = AgeDefault
    /\ gender' = "Male"
    /\ height_cm' = HeightDefault
    /\ weight_kg' = WeightDefault
    /\ activity' = Sedentary
    /\ goal' = "Maintain weight"
    /\ results' = NoResults
    /\ UNCHANGED <<call, ret>>

Next == Submit \/ NewSession

Spec == Init /\ [][Next]_vars

(* ---------------- the helper functions called directly ---------------- *)

\* values at and just outside a widget's limits, and around zero
Edge(lo, hi, dflt) == (-Margin..Margin) \cup ((lo - Margin)..lo) \cup (hi..(hi + Margin)) \cup {dflt}

EdgeAges == Edge(AgeMin, AgeMax, AgeDefault)
EdgeHeights == Edge(HeightMin, HeightMax, HeightDefault)
EdgeWeights == Edge(WeightMin, WeightMax, WeightDefault)

AnyGenders == Genders \cup {"Unknown"}
AnyActivities == Activities \cup {"Sedentary", ""}
AnyGoals == Goals \cup {"Lose weight", ""}
AnyCategories == {"Underweight", "Normal weight", "Overweight", "Obese", "NormalWeight", ""}

BmiValues == {[num |-> k, den |-> 100, ulps |-> u] : k \in (-100)..(MaxBmi * 100), u \in -1..1}
CalValues == (-MinCal)..MaxCal

\* the calls made: each helper with arguments from its sets
IsCall(c) ==
    \/ \E w \in (-Margin)..(WeightMax + Margin), h \in Heights \cup EdgeHeights :
          c = [fn |-> "calculate_bmi", args |-> <<w, h>>]
    \/ \E b \in BmiValues : c = [fn |-> "bmi_category", args |-> <<b>>]
    \/ \E level \in AnyActivities : c = [fn |-> "activity_factor", args |-> <<level>>]
    \/ \E w \in Weights \cup EdgeWeights, h \in Heights \cup EdgeHeights,
          a \in Ages \cup EdgeAges, sex \in AnyGenders :
          c = [fn |-> "bmr_mifflin", args |-> <<w, h, a, sex>>]
    \/ \E t \in CalValues, g \in AnyGoals :
          c = [fn |-> "adjust_calorie_for_goal", args |-> <<t, g>>]
    \/ \E t \in CalValues, cat \in AnyCategories :
          c = [fn |-> "sample_meal_plan", args |-> <<t, cat>>]
    \/ \E w \in EdgeWeights, h \in EdgeHeights, a \in EdgeAges,
          sex \in {"Male", "Female", "Unknown"},
          level \in {Sedentary, ExtraActive, ""},
          g \in {"Maintain weight", "Weight loss", ""} :
          c = [fn |-> "main", args |-> <<w, h, a, sex, level, g>>]

InitCore ==
    /\ FormDefaults
    /\ results = NoResults
    /\ IsCall(call)
    /\ ret = Pending

Apply(fn, result) ==
    /\ call.fn = fn
    /\ ret = Pending
    /\ ret' = result
    /\ UNCHANGED <<form, results, call>>

CallCalculateBmi == Apply("calculate_bmi", calculate_bmi(call.args[1], call.args[2]))

CallBmiCategory == Apply("bmi_category", Ok(bmi_category(call.args[1])))

CallActivityFactor == Apply("activity_factor", Ok(activity_factor(call.args[1])))

CallBmrMifflin ==
    Apply("bmr_mifflin",
          Ok(bmr_mifflin(call.args[1], call.args[2], call.args[3], call.args[4])))

CallAdjustCalorieForGoal ==
    Apply("adjust_calorie_for_goal",
          Ok(adjust_calorie_for_goal(call.args[1], call.args[2])))

CallSampleMealPlan ==
    Apply("sample_meal_plan",
          [status |-> "ok",
           value |-> sample_meal_plan(call.args[1], call.args[2]),
           locals |-> BasePortions(call.args[1])])

CallMainLogic ==
    LET m == MainLogic(call.args[1], call.args[2], call.args[3],
                       call.args[4], call.args[5], call.args[6])
    IN  Apply("main", [status |-> IF m.err = "none" THEN "ok" ELSE m.err, value |-> m])

NextCore ==
    \/ CallCalculateBmi
    \/ CallBmiCategory
    \/ CallActivityFactor
    \/ CallBmrMifflin
    \/ CallAdjustCalorieForGoal
    \/ CallSampleMealPlan
    \/ CallMainLogic

SpecCore == InitCore /\ [][NextCore]_vars

(* ---------------- properties ---------------- *)

\* the helper fn was called directly and has returned or raised
Returned(fn) == call.fn = fn /\ ret.status # "pending"

Categories == {"Underweight", "Normal weight", "Overweight", "Obese"}

Rank(cat) ==
    CASE cat = "Underweight" -> 0
      [] cat = "Normal weight" -> 1
      [] cat = "Overweight" -> 2
      [] cat = "Obese" -> 3

\* C1: bmi_category is total and monotonic, with bands closed below:
\* bmi < 18.5 Underweight, 18.5 <= bmi < 25 Normal weight, 25 <= bmi < 30
\* Overweight, bmi >= 30 Obese; 18.5, 25 and 30 fall in the upper band, 18.49
\* is Underweight, and a larger bmi never gets a lower category.
\* (The bmi values drawn are k/100 and the doubles next to them; 3k + ulps
\* orders them.)
C1_BmiCategoryBands ==
    Returned("bmi_category") =>
        LET b == call.args[1]
            key == 3 * b.num + b.ulps
            larger == {[b EXCEPT !.num = b.num + 1]} \cup
                      (IF b.ulps < 1 THEN {[b EXCEPT !.ulps = b.ulps + 1]} ELSE {})
        IN  /\ ret.status = "ok"
            /\ ret.value \in Categories
            /\ (key < 3 * 1850) => ret.value = "Underweight"
            /\ (3 * 1850 <= key /\ key < 3 * 2500) => ret.value = "Normal weight"
            /\ (3 * 2500 <= key /\ key < 3 * 3000) => ret.value = "Overweight"
            /\ (3 * 3000 <= key) => ret.value = "Obese"
            /\ (b.num = 1849 /\ b.ulps = 0) => ret.value = "Underweight"
            /\ (b.num = 1850 /\ b.ulps = 0) => ret.value = "Normal weight"
            /\ (b.num = 2500 /\ b.ulps = 0) => ret.value = "Overweight"
            /\ (b.num = 3000 /\ b.ulps = 0) => ret.value = "Obese"
            /\ \A b2 \in larger : Rank(bmi_category(b2)) >= Rank(ret.value)

C1_Witness ==
    /\ Returned("bmi_category")
    /\ call.args[1] = [num |-> 2500, den |-> 100, ulps |-> 0]
    /\ ret.value = "Overweight"

\* C2: bmr_mifflin is 10*weight + 6.25*height - 5*age + 5 for Male, the same
\* with -161 for Female, and for any other sex the mean of the two; weight 70,
\* height 170, age 25 give 1642.5, 1476.5 and 1559.5.  (Quarters of a kcal.)
C2_BmrMifflin ==
    Returned("bmr_mifflin") =>
        LET w == call.args[1]
            h == call.args[2]
            a == call.args[3]
            sex == call.args[4]
            base == 4 * (10 * w - 5 * a) + 25 * h
        IN  /\ ret.status = "ok"
            /\ sex = "Male" => ret.value = base + 4 * 5
            /\ sex = "Female" => ret.value = base - 4 * 161
            /\ sex \notin {"Male", "Female"} =>
                   2 * ret.value = (base + 4 * 5) + (base - 4 * 161)
            /\ (w = 70 /\ h = 170 /\ a = 25) =>
                   /\ sex = "Male" => ret.value = 6570
                   /\ sex = "Female" => ret.value = 5906
                   /\ sex \notin {"Male", "Female"} => ret.value = 6238

C2_Witness ==
    /\ Returned("bmr_mifflin")
    /\ call.args = <<70, 170, 25, "Unknown">>
    /\ ret.value = 6238

\* the factor table of the specification, in thousandths
TableFactor(level) ==
    CASE level = Sedentary -> 1200
      [] level = LightlyActive -> 1375
      [] level = ModeratelyActive -> 1550
      [] level = VeryActive -> 1725
      [] level = ExtraActive -> 1900

\* C3: for every in-range input the pipeline's TDEE is floor(bmr * factor),
\* factor from the fixed table, and that floor is the truncation toward zero;
\* BMR 1642.5 with Sedentary gives 1971.
C3_TdeeIsFloor ==
    submit =>
        LET x == results.bmr * TableFactor(activity)
        IN  /\ results.tdee = x \div 4000
            /\ x \div 4000 = (IF x >= 0 THEN x \div 4000 ELSE -((-x) \div 4000))
            /\ (results.bmr = 6570 /\ activity = Sedentary) => results.tdee = 1971

C3_Witness ==
    /\ submit
    /\ weight_kg = 70 /\ height_cm = 170 /\ age = 25 /\ gender = "Male"
    /\ activity = Sedentary
    /\ results.bmr = 6570
    /\ results.tdee = 1971

\* the offset table of the specification
TableOffset(g) ==
    CASE g = "Maintain weight" -> 0
      [] g = "Mild weight loss" -> -250
      [] g = "Weight loss" -> -500
      [] g = "Mild weight gain" -> 250
      [] g = "Weight gain" -> 500

\* C4: adjust_calorie_for_goal returns the integer tdee + offset, offset 0,
\* -250, -500, +250, +500 by goal; tdee 1971 with Mild weight loss gives 1721.
C4_GoalOffset ==
    (Returned("adjust_calorie_for_goal") /\ call.args[2] \in Goals) =>
        /\ ret.status = "ok"
        /\ ret.value \in Int
        /\ ret.value = call.args[1] + TableOffset(call.args[2])
        /\ (call.args[1] = 1971 /\ call.args[2] = "Mild weight loss") => ret.value = 1721

C4_Witness ==
    /\ Returned("adjust_calorie_for_goal")
    /\ call.args = <<1971, "Mild weight loss">>
    /\ ret.value = 1721

\* C5: an activity level outside the five levels gets factor 1.2 and a goal
\* outside the five goals gets offset 0, in a direct call and in the
\* pipeline, and neither lookup fails.
C5_UnmappedDefaults ==
    /\ (Returned("activity_factor") /\ call.args[1] \notin Activities) =>
           (ret.status = "ok" /\ ret.value = 1200)
    /\ (Returned("adjust_calorie_for_goal") /\ call.args[2] \notin Goals) =>
           (ret.status = "ok" /\ ret.value = call.args[1])
    /\ (Returned("main") /\ call.args[2] # 0) =>
           /\ ret.status = "ok"
           /\ call.args[5] \notin Activities =>
                  ret.value.tdee = Trunc(ret.value.bmr * 12, 40)
           /\ call.args[6] \notin Goals => ret.value.cal_target = ret.value.tdee

C5_Witness ==
    /\ Returned("main")
    /\ call.args[5] \notin Activities
    /\ call.args[6] \notin Goals
    /\ ret.status = "ok"
    /\ ret.value.stage = "report"
    /\ ret.value.cal_target = ret.value.tdee
    /\ ret.value.tdee > 0

OutOfRange(w, h, a) ==
    \/ a \notin AgeMin..AgeMax
    \/ h \notin HeightMin..HeightMax
    \/ w \notin WeightMin..WeightMax

PortionSum(p) == p.b + p.l + p.s + p.d

\* C8 as claimed: the four truncated base portions add up to the calorie
\* target.
C8_PortionsSumToTarget ==
    Returned("sample_meal_plan") => PortionSum(ret.locals) = call.args[1]

\* C8 amended: the four truncated base portions add up to the calorie target
\* less 0 to 3 kcal for a target >= 0 (plus 0 to 3 for a negative one): each
\* int() drops a fraction, so the sum is never beyond the target and is
\* within 3 of it.
C8_PortionsWithinThree ==
    Returned("sample_meal_plan") =>
        LET c == call.args[1]
            sum == PortionSum(ret.locals)
        IN  /\ c >= 0 => (c - 3 <= sum /\ sum <= c)
            /\ c < 0 => (c <= sum /\ sum <= c + 3)

C8_Witness ==
    /\ Returned("sample_meal_plan")
    /\ call.args[1] = 1721
    /\ ret.locals = [b |-> 430, l |-> 602, s |-> 172, d |-> 516]

\* the deltas of the specification: breakfast, lunch, snack, dinner
TableDelta(cat) ==
    CASE cat = "Underweight" -> <<150, 200, 150, 150>>
      [] cat = "Normal weight" -> <<0, 0, 0, 0>>
      [] cat = "Overweight" -> <<-100, -100, -50, -50>>
      [] OTHER -> <<-150, -150, -50, -100>>

\* C9: the kcal number in each meal string is the meal's truncated base
\* portion plus the category's delta; a category other than Underweight,
\* Normal weight and Overweight is treated as Obese.
C9_MealDeltas ==
    Returned("sample_meal_plan") =>
        LET delta == TableDelta(call.args[2])
            m == ret.value
            p == ret.locals
        IN  /\ m.breakfast.kcal = p.b + delta[1]
            /\ m.lunch.kcal = p.l + delta[2]
            /\ m.snack.kcal = p.s + delta[3]
            /\ m.dinner.kcal = p.d + delta[4]
            /\ p.b = Trunc(call.args[1], 4)
            /\ p.s = Trunc(call.args[1], 10)
            /\ call.args[2] \notin {"Underweight", "Normal weight", "Overweight"} =>
                   m.notes = "Aim for modest calorie deficit, high fiber, lean proteins. Consult a professional for personalised plan."

C9_Witness ==
    /\ Returned("sample_meal_plan")
    /\ call.args = <<2000, "NormalWeight">>
    /\ ret.value.breakfast.kcal = 350
    /\ ret.value.lunch.kcal = 550
    /\ ret.value.snack.kcal = 150
    /\ ret.value.dinner.kcal = 500

\* C10: for every in-range input the pipeline's BMR, TDEE and calorie target
\* are positive and every kcal number in the four meal suggestions is
\* non-negative.
C10_PositiveEnergy ==
    submit =>
        /\ results.bmr > 0
        /\ results.tdee > 0
        /\ results.cal_target > 0
        /\ results.plan.breakfast.kcal >= 0
        /\ results.plan.lunch.kcal >= 0
        /\ results.plan.snack.kcal >= 0
        /\ results.plan.dinner.kcal >= 0

====
